---- MODULE Spec2Model ----
(***************************************************************************)
(* The competitor analysis pipeline of backend-node:                       *)
(*   services/competitor-analysis.ts  scrapeCompetitor, scrapeAllPending,  *)
(*                                    runAnalysis                          *)
(*   services/scraper.ts              scrapeUrl                            *)
(*   routes/competitors.ts            POST /:id/scrape, POST /:id/analyze  *)
(* The store (prisma) is the shared state; every request is a sequential   *)
(* task whose steps are the code between two awaits.                       *)
(***************************************************************************)
EXTENDS Integers, Sequences, FiniteSets, TLC

VARIABLES analysis, comp, req, calls, gets

vars == <<analysis, comp, req, calls, gets>>

-----------------------------------------------------------------------------
(* Bounds of the model.                                                    *)

NumCompetitors == 2
MaxCalls == 2
MaxEntries == 2
MaxConcurrentEntries == 1

-----------------------------------------------------------------------------
(* JavaScript values.  Text columns are strings, NULL being SQL NULL / JS  *)
(* null; values coming from the scoring engine are tagged with their       *)
(* typeof.                                                                 *)

NULL == "<null>"

Undef == [t |-> "undefined"]
JsNull == [t |-> "null"]
Num(n) == [t |-> "number", v |-> n]
Str(s) == [t |-> "string", v |-> s]
Arr(s) == [t |-> "array", v |-> s]
Obj == [t |-> "object"]

\* x || y on a string-or-null left operand: "" and null are falsy
OrElse(x, y) == IF x # NULL /\ x # "" THEN x ELSE y

\* x ?? y : only undefined and null fall through
Coalesce(x, y) == IF x.t \in {"undefined", "null"} THEN y ELSE x

\* truthiness of a tagged value ([] and {} are truthy, 0 and "" are not)
Truthy(x) ==
    CASE x.t \in {"undefined", "null"} -> FALSE
      [] x.t = "number" -> x.v # 0
      [] x.t = "string" -> x.v # ""
      [] OTHER -> TRUE

-----------------------------------------------------------------------------
(* Identifiers.                                                            *)

CompIds == 1..NumCompetitors
NoCompetitor == 0
TheAnalysis == "a1"
NoAnalysis == "a0"

CompName(c) == IF c = 1 THEN "A" ELSE IF c = 2 THEN "B" ELSE "C"

\* the id column of competitor c (a cuid in the code)
CompKey(c) == IF c = 1 THEN "c1" ELSE IF c = 2 THEN "c2" ELSE "c3"

RECURSIVE SeqSum(_)
SeqSum(s) == IF s = <<>> THEN 0 ELSE Head(s) + SeqSum(Tail(s))

\* all orderings of a finite set, as sequences without repetition
Orderings(S) ==
    {s \in [1..Cardinality(S) -> S] : \A i, j \in DOMAIN s : i # j => s[i] # s[j]}

-----------------------------------------------------------------------------
(* scraper.ts: scrapeUrl.  A url is a string; Protocol is what `new URL`   *)
(* parses out of it.  The network answers a GET with a page or an error.   *)

Urls == {"https://a.test", "ftp://a.test"}

\* the urls a request body can carry: the routes store any non-empty string
AnyUrls ==
    {"https://a.test", "http://a.test", "ftp://a.test", "file:///etc/passwd",
     "javascript:alert(1)", "not a url"}

\* new URL(url).protocol; a string that is no URL makes `new URL` throw
Parses(url) == url # "not a url"

Protocol(url) ==
    CASE url = "https://a.test" -> "https:"
      [] url = "http://a.test" -> "http:"
      [] url = "ftp://a.test" -> "ftp:"
      [] url = "file:///etc/passwd" -> "file:"
      [] url = "javascript:alert(1)" -> "javascript:"

\* line 203: the characters of a page's body text the prompt takes
PromptBodyMax == 1500

\* a text of n characters
Text(n) == [i \in 1..n |-> "x"]

\* what the extractor produces from a page: every field defaults to ""/[]
FullData(url) ==
    [title |-> "T", description |-> "sd", tagline |-> "st", features |-> <<"sf">>,
     pricing |-> "sp", bodyText |-> Text(4), url |-> url, scrapedAt |-> "iso"]

EmptyData(url) ==
    [title |-> "", description |-> "", tagline |-> "", features |-> <<>>,
     pricing |-> "", bodyText |-> <<>>, url |-> url, scrapedAt |-> "iso"]

\* answers of the network to one GET: an error (with its message) or a page
NetErrors == {[ok |-> FALSE, message |-> "timeout of 15000ms exceeded"],
              [ok |-> FALSE, message |-> ""]}

NetPages(url) == {[ok |-> TRUE, data |-> FullData(url)],
                  [ok |-> TRUE, data |-> EmptyData(url)]}

NetAnswers(url) == NetErrors \cup NetPages(url)

\* pages from which the extractor gets some fields and not the others
MixedPages(url) ==
    {[ok |-> TRUE, data |-> [EmptyData(url) EXCEPT !.tagline = "st", !.features = <<"sf">>]],
     [ok |-> TRUE, data |-> [EmptyData(url) EXCEPT !.description = "sd", !.pricing = "sp"]]}

AnyAnswers(url) == NetAnswers(url) \cup MixedPages(url)

\* scrapeUrl testing the protocol only after the GET
scrapeUrlCheckAfterGet(url, net) ==
    IF ~Parses(url)
    THEN [ok |-> FALSE, message |-> "Invalid URL", gets |-> 0]
    ELSE IF ~net.ok
    THEN [ok |-> FALSE, message |-> net.message, gets |-> 1]
    ELSE IF Protocol(url) \notin {"http:", "https:"}
         THEN [ok |-> FALSE, message |-> "Only HTTP/HTTPS URLs are supported", gets |-> 1]
         ELSE [ok |-> TRUE, data |-> net.data, gets |-> 1]

\* scrapeUrl(url) given the network's answer: [ok, data | message, gets]
scrapeUrl(url, net) ==
    IF ~Parses(url)
    THEN [ok |-> FALSE, message |-> "Invalid URL", gets |-> 0]
    ELSE IF Protocol(url) \notin {"http:", "https:"}
    THEN [ok |-> FALSE, message |-> "Only HTTP/HTTPS URLs are supported", gets |-> 0]
    ELSE IF net.ok
         THEN [ok |-> TRUE, data |-> net.data, gets |-> 1]
         ELSE [ok |-> FALSE, message |-> net.message, gets |-> 1]

-----------------------------------------------------------------------------
(* The store.  A Competitor row as POST / and POST /:id/competitors create *)
(* it (routes/competitors.ts) with the migration's column defaults.        *)

NewCompetitor(c, url, manual) ==
    [name |-> CompName(c),
     url |-> url,
     description |-> IF manual THEN "md" ELSE NULL,
     tagline |-> NULL,
     features |-> IF manual THEN <<"mf">> ELSE <<>>,
     pricing |-> IF manual THEN "mp" ELSE NULL,
     strengths |-> <<>>,
     weaknesses |-> <<>>,
     scrapedAt |-> NULL,
     scrapeStatus |-> "PENDING",
     scrapeError |-> NULL,
     rawScrapedData |-> JsNull,
     overallScore |-> JsNull,
     featureScore |-> JsNull,
     pricingScore |-> JsNull,
     uxScore |-> JsNull,
     marketScore |-> JsNull,
     scores |-> JsNull]

NewAnalysis == [status |-> "DRAFT", summary |-> JsNull, overallScore |-> JsNull]

\* prisma.competitor.update({where: {id}, data}): the named columns only
UpdateCompetitor(store, c, data) ==
    [store EXCEPT ![c] = [f \in DOMAIN store[c] |->
                            IF f \in DOMAIN data THEN data[f] ELSE store[c][f]]]

UpdateAnalysis(a, data) ==
    [f \in DOMAIN a |-> IF f \in DOMAIN data THEN data[f] ELSE a[f]]

-----------------------------------------------------------------------------
(* Requests.  A request is one call of an exported function, made by a     *)
(* route handler; pc is the await it is suspended at.                      *)

NoRow == [found |-> FALSE]
NoOutcome == [kind |-> "none"]
Returned(v) == [kind |-> "return", value |-> v]
Thrown(m) == [kind |-> "throw", message |-> m]

Idle ==
    [kind |-> "idle", pc |-> "idle", aid |-> NoAnalysis, cid |-> NoCompetitor,
     selected |-> <<>>, queue |-> <<>>, scraped |-> 0, competitor |-> NoRow,
     loaded |-> NoRow, prompt |-> <<>>, result |-> Undef, entries |-> Undef, idx |-> 0,
     err |-> NULL, last |-> NoOutcome, outcome |-> NoOutcome,
     pre |-> NoRow, preStatus |-> NULL, preGets |-> <<>>, preAnalysis |-> NoRow,
     log |-> <<>>]

Procs == DOMAIN req

InitStore ==
    /\ analysis = NewAnalysis
    /\ \E u \in [CompIds -> Urls \cup {NULL}] :
         comp = [c \in CompIds |-> NewCompetitor(c, u[c], c % 2 = 1)]
    /\ calls = 0
    /\ gets = [c \in CompIds |-> 0]

\* callers serialized per analysis: one request at a time
Init == InitStore /\ req = [p \in {1} |-> Idle]

\* competitors created with any url a request body can carry
InitScrape ==
    /\ analysis = NewAnalysis
    /\ \E u \in [CompIds -> AnyUrls \cup {NULL}] :
         comp = [c \in CompIds |-> NewCompetitor(c, u[c], c % 2 = 1)]
    /\ calls = 0
    /\ gets = [c \in CompIds |-> 0]
    /\ req = [p \in {1} |-> Idle]

\* two competitors with a url, nothing scraped, one request at a time
InitAnalyze ==
    /\ analysis = NewAnalysis
    /\ comp = [c \in CompIds |-> NewCompetitor(c, "https://a.test", c % 2 = 1)]
    /\ calls = 0
    /\ gets = [c \in CompIds |-> 0]
    /\ req = [p \in {1} |-> Idle]

\* competitor rows as the store can hold them: any manual fields, and no
\* scraped record or one with any fields and a body text of any length
PromptRows(c, url) ==
    {[NewCompetitor(c, url, FALSE) EXCEPT !.description = d, !.tagline = t, !.features = f,
                                          !.pricing = d2, !.rawScrapedData = raw] :
        d \in {NULL, "md"}, t \in {NULL, "mt"}, f \in {<<>>, <<"mf">>}, d2 \in {NULL, "mp"},
        raw \in {JsNull, FullData(url), EmptyData(url),
                 [FullData(url) EXCEPT !.bodyText = Text(PromptBodyMax + 1)],
                 [EmptyData(url) EXCEPT !.bodyText = Text(PromptBodyMax)]}}

InitPrompt ==
    /\ analysis = NewAnalysis
    /\ \E r1 \in PromptRows(1, "https://a.test") :
         comp = [c \in CompIds |-> IF c = 1 THEN r1
                                   ELSE NewCompetitor(c, NULL, c % 2 = 1)]
    /\ calls = 0
    /\ gets = [c \in CompIds |-> 0]
    /\ req = [p \in {1} |-> Idle]

\* two route handlers interleaved at their awaits
InitConcurrent == InitStore /\ req = [p \in {1, 2} |-> Idle]

-----------------------------------------------------------------------------
(* scrapeCompetitor (competitor-analysis.ts 22-58).  It runs as a request  *)
(* of its own or as the callee of scrapeAllPending's loop; `last` is the   *)
(* value it returned.                                                      *)

\* the early return taken only for a competitor that does not exist
scrapeCompetitorFindNoUrlCheck(p) ==
    /\ req[p].pc = "sc_find"
    /\ LET c == req[p].cid
           row == IF c \in CompIds THEN [found |-> TRUE, row |-> comp[c]] ELSE NoRow
       IN  IF ~row.found
           THEN req' = [req EXCEPT ![p].pc = "sc_return", ![p].competitor = row,
                                   ![p].last = Returned(JsNull)]
           ELSE req' = [req EXCEPT ![p].pc = "sc_mark", ![p].competitor = row]
    /\ UNCHANGED <<analysis, comp, calls, gets>>

\* line 23-24: findUnique, and the early return
scrapeCompetitorFind(p) ==
    /\ req[p].pc = "sc_find"
    /\ LET c == req[p].cid
           row == IF c \in CompIds THEN [found |-> TRUE, row |-> comp[c]] ELSE NoRow
       IN  IF ~row.found \/ row.row.url = NULL \/ row.row.url = ""
           THEN req' = [req EXCEPT ![p].pc = "sc_return", ![p].competitor = row,
                                   ![p].last = Returned(JsNull)]
           ELSE req' = [req EXCEPT ![p].pc = "sc_mark", ![p].competitor = row]
    /\ UNCHANGED <<analysis, comp, calls, gets>>

\* scrapeCompetitor going to the fetch without the SCRAPING write
scrapeCompetitorMarkSkip(p) ==
    /\ req[p].pc = "sc_mark"
    /\ req' = [req EXCEPT ![p].pc = "sc_fetch"]
    /\ UNCHANGED <<analysis, comp, calls, gets>>

\* line 26-29: the SCRAPING write
scrapeCompetitorMark(p) ==
    /\ req[p].pc = "sc_mark"
    /\ comp' = UpdateCompetitor(comp, req[p].cid, [scrapeStatus |-> "SCRAPING"])
    /\ req' = [req EXCEPT ![p].pc = "sc_fetch"]
    /\ UNCHANGED <<analysis, calls, gets>>

\* the COMPLETED write taking every field from the page
CompletedDataOverwrite(competitor, data) ==
    [scrapeStatus |-> "COMPLETED",
     scrapedAt |-> "now",
     rawScrapedData |-> data,
     tagline |-> data.tagline,
     description |-> data.description,
     features |-> data.features,
     pricing |-> data.pricing]

\* line 34-45: the data of the COMPLETED write
CompletedData(competitor, data) ==
    [scrapeStatus |-> "COMPLETED",
     scrapedAt |-> "now",
     rawScrapedData |-> data,
     tagline |-> OrElse(data.tagline, competitor.tagline),
     description |-> OrElse(data.description, competitor.description),
     features |-> IF Len(data.features) > 0 THEN data.features ELSE competitor.features,
     pricing |-> OrElse(data.pricing, competitor.pricing)]

\* FailedData without the 'Scrape failed' fallback
FailedDataNoFallback(message) ==
    [scrapeStatus |-> "FAILED", scrapeError |-> message]

\* line 49-55: the data of the FAILED write
FailedData(message) ==
    [scrapeStatus |-> "FAILED", scrapeError |-> OrElse(message, "Scrape failed")]

\* scrapeCompetitor returning null on a failed fetch without the FAILED write
scrapeCompetitorFetchOnNoFailedWrite(p, mixed) ==
    /\ req[p].pc = "sc_fetch"
    /\ LET c == req[p].cid
           competitor == req[p].competitor.row
       IN  \E net \in (IF mixed THEN AnyAnswers(competitor.url)
                                  ELSE NetAnswers(competitor.url)) :
             LET r == scrapeUrl(competitor.url, net)
             IN  /\ gets' = [gets EXCEPT ![c] = @ + r.gets]
                 /\ IF r.ok
                    THEN /\ comp' = UpdateCompetitor(comp, c, CompletedData(competitor, r.data))
                         /\ req' = [req EXCEPT ![p].pc = "sc_return",
                                               ![p].last = Returned(r.data),
                                               ![p].log = Append(@, [c |-> c, ok |-> TRUE])]
                    ELSE /\ comp' = comp
                         /\ req' = [req EXCEPT ![p].pc = "sc_return", ![p].err = r.message,
                                               ![p].last = Returned(JsNull),
                                               ![p].log = Append(@, [c |-> c, ok |-> FALSE])]
    /\ UNCHANGED <<analysis, calls>>

\* line 31-57: scrapeUrl finishes, and the result is written; the network
\* answers with one of NetAnswers(url) or, when mixed, of AnyAnswers(url)
scrapeCompetitorFetchOn(p, mixed) ==
    /\ req[p].pc = "sc_fetch"
    /\ LET c == req[p].cid
           competitor == req[p].competitor.row
       IN  \E net \in (IF mixed THEN AnyAnswers(competitor.url)
                                  ELSE NetAnswers(competitor.url)) :
             LET r == scrapeUrl(competitor.url, net)
             IN  /\ gets' = [gets EXCEPT ![c] = @ + r.gets]
                 /\ IF r.ok
                    THEN /\ comp' = UpdateCompetitor(comp, c, CompletedData(competitor, r.data))
                         /\ req' = [req EXCEPT ![p].pc = "sc_return",
                                               ![p].last = Returned(r.data),
                                               ![p].log = Append(@, [c |-> c, ok |-> TRUE])]
                    ELSE /\ comp' = UpdateCompetitor(comp, c, FailedData(r.message))
                         /\ req' = [req EXCEPT ![p].pc = "sc_return", ![p].err = r.message,
                                               ![p].last = Returned(JsNull),
                                               ![p].log = Append(@, [c |-> c, ok |-> FALSE])]
    /\ UNCHANGED <<analysis, calls>>

scrapeCompetitorFetch(p) == scrapeCompetitorFetchOn(p, FALSE)

\* the loop counting the attempts instead of the successes
scrapeCompetitorReturnCountAll(p) ==
    /\ req[p].pc = "sc_return"
    /\ IF req[p].kind = "scrapeCompetitor"
       THEN req' = [req EXCEPT ![p].pc = "done", ![p].outcome = req[p].last]
       ELSE req' = [req EXCEPT ![p].pc = "sa_loop", ![p].scraped = @ + 1]
    /\ UNCHANGED <<analysis, comp, calls, gets>>

\* the return to the caller: the route handler, or line 72-73 of the loop
scrapeCompetitorReturn(p) ==
    /\ req[p].pc = "sc_return"
    /\ IF req[p].kind = "scrapeCompetitor"
       THEN req' = [req EXCEPT ![p].pc = "done", ![p].outcome = req[p].last]
       ELSE req' = [req EXCEPT ![p].pc = "sa_loop",
                               ![p].scraped = IF req[p].last.value # JsNull
                                              THEN @ + 1 ELSE @]
    /\ UNCHANGED <<analysis, comp, calls, gets>>

\* a caller invokes scrapeCompetitor(competitorId)
scrapeCompetitorCall(p) ==
    /\ req[p].pc = "idle"
    /\ calls < MaxCalls
    /\ \E c \in CompIds \cup {NoCompetitor} :
         req' = [req EXCEPT ![p] = [Idle EXCEPT !.kind = "scrapeCompetitor", !.pc = "sc_find",
                                                 !.aid = TheAnalysis, !.cid = c,
                                                 !.pre = [found |-> TRUE, rows |-> comp],
                                                 !.preStatus = analysis.status, !.preGets = gets,
                                       !.preAnalysis = analysis]]
    /\ calls' = calls + 1
    /\ UNCHANGED <<analysis, comp, gets>>

-----------------------------------------------------------------------------
(* scrapeAllPending (competitor-analysis.ts 60-77), called by              *)
(* POST /:id/scrape.                                                       *)

\* findMany without the scrapeStatus filter
PendingAnyStatus(store) == {c \in CompIds : store[c].url # NULL}

\* line 61-63: the competitors findMany selects (in an order of the store's)
Pending(store) ==
    {c \in CompIds : store[c].scrapeStatus = "PENDING" /\ store[c].url # NULL}

\* scrapeAllPending selecting the FAILED competitors again
scrapeAllPendingCallRetryFailed(p) ==
    /\ req[p].pc = "idle"
    /\ calls < MaxCalls
    /\ \E a \in {TheAnalysis, NoAnalysis} :
         \E sel \in Orderings(IF a = TheAnalysis
                              THEN {c \in CompIds : /\ comp[c].url # NULL
                                                    /\ comp[c].scrapeStatus \in {"PENDING", "FAILED"}}
                              ELSE {}) :
           req' = [req EXCEPT ![p] = [Idle EXCEPT !.kind = "scrapeAllPending", !.pc = "sa_mark",
                                                   !.aid = a, !.selected = sel, !.queue = sel,
                                                   !.pre = [found |-> TRUE, rows |-> comp],
                                                   !.preStatus = analysis.status, !.preGets = gets,
                                                   !.preAnalysis = analysis]]
    /\ calls' = calls + 1
    /\ UNCHANGED <<analysis, comp, gets>>

scrapeAllPendingCall(p) ==
    /\ req[p].pc = "idle"
    /\ calls < MaxCalls
    /\ \E a \in {TheAnalysis, NoAnalysis} :
         \E sel \in Orderings(IF a = TheAnalysis THEN Pending(comp) ELSE {}) :
           req' = [req EXCEPT ![p] = [Idle EXCEPT !.kind = "scrapeAllPending", !.pc = "sa_mark",
                                                   !.aid = a, !.selected = sel, !.queue = sel,
                                                   !.pre = [found |-> TRUE, rows |-> comp],
                                                   !.preStatus = analysis.status, !.preGets = gets,
                                       !.preAnalysis = analysis]]
    /\ calls' = calls + 1
    /\ UNCHANGED <<analysis, comp, gets>>

\* line 65-68: the SCRAPING write on the Analysis (no such row: update rejects)
scrapeAllPendingMark(p) ==
    /\ req[p].pc = "sa_mark"
    /\ IF req[p].aid = TheAnalysis
       THEN /\ analysis' = UpdateAnalysis(analysis, [status |-> "SCRAPING"])
            /\ req' = [req EXCEPT ![p].pc = "sa_loop"]
       ELSE /\ analysis' = analysis
            /\ req' = [req EXCEPT ![p].pc = "done",
                                  ![p].outcome = Thrown("Record to update not found.")]
    /\ UNCHANGED <<comp, calls, gets>>

\* the loop giving up at the first competitor that was not scraped
scrapeAllPendingLoopAbort(p) ==
    /\ req[p].pc = "sa_loop"
    /\ IF req[p].queue # <<>> /\ (req[p].last = NoOutcome \/ req[p].last.value # JsNull)
       THEN req' = [req EXCEPT ![p].pc = "sc_find", ![p].cid = Head(req[p].queue),
                               ![p].queue = Tail(req[p].queue), ![p].err = NULL,
                               ![p].competitor = NoRow, ![p].last = NoOutcome]
       ELSE req' = [req EXCEPT ![p].pc = "done", ![p].outcome = Returned(Num(req[p].scraped))]
    /\ UNCHANGED <<analysis, comp, calls, gets>>

\* line 70-76: the loop over the selected competitors, and the return
scrapeAllPendingLoop(p) ==
    /\ req[p].pc = "sa_loop"
    /\ IF req[p].queue # <<>>
       THEN req' = [req EXCEPT ![p].pc = "sc_find", ![p].cid = Head(req[p].queue),
                               ![p].queue = Tail(req[p].queue), ![p].err = NULL,
                               ![p].competitor = NoRow, ![p].last = NoOutcome]
       ELSE req' = [req EXCEPT ![p].pc = "done", ![p].outcome = Returned(Num(req[p].scraped))]
    /\ UNCHANGED <<analysis, comp, calls, gets>>

-----------------------------------------------------------------------------
(* The scoring engine's answer (ai-provider's analyzeExperimentResults):   *)
(* it throws, or returns a map that may hold competitor_scores / patterns. *)
(* A score entry is a map from keys to values; an absent key is undefined. *)

EntryKeys ==
    {"competitorId", "name", "overallScore", "overall", "featureScore", "features", "feature",
     "pricingScore", "pricing", "uxScore", "ux", "marketScore", "market",
     "strengths", "weaknesses"}

NoKeys == [k \in EntryKeys |-> Undef]

Entries ==
    {[NoKeys EXCEPT !.competitorId = Str(CompKey(1)), !.overallScore = Num(80),
                    !.featureScore = Num(70), !.strengths = Arr(<<"s1">>)],
     [NoKeys EXCEPT !.name = Str(CompName(2)), !.overall = Num(60), !.ux = Num(0)],
     [NoKeys EXCEPT !.name = Str("Z"), !.overallScore = Num(90)],
     [NoKeys EXCEPT !.name = Str(CompName(1)), !.overallScore = Num(150),
                    !.marketScore = Num(-5)],
     [NoKeys EXCEPT !.name = Str(CompName(2)), !.overallScore = Str("high")],
     [NoKeys EXCEPT !.name = Str(CompName(1)), !.pricingScore = Num(30)],
     JsNull}

\* entries that exercise the matching, the aliases and the lists
AliasEntries ==
    {[NoKeys EXCEPT !.competitorId = Str(CompKey(1)), !.name = Str(CompName(2)),
                    !.overallScore = Num(80), !.weaknesses = Arr(<<"w1">>)],
     [NoKeys EXCEPT !.name = Str(CompName(1)), !.overallScore = Num(0), !.overall = Num(50),
                    !.feature = Num(70), !.strengths = Arr(<<>>)],
     [NoKeys EXCEPT !.name = Str(CompName(2)), !.overallScore = JsNull, !.overall = Num(50),
                    !.features = Num(40), !.uxScore = Num(10), !.ux = Num(20),
                    !.strengths = Arr(<<"s2">>)],
     [NoKeys EXCEPT !.name = Str(CompName(2)), !.pricing = Num(30), !.market = Num(5),
                    !.strengths = Arr(<<>>), !.weaknesses = Arr(<<>>)],
     [NoKeys EXCEPT !.competitorId = Str("c9"), !.name = Str("Z"), !.overallScore = Num(90),
                    !.strengths = Arr(<<"s9">>)],
     [NoKeys EXCEPT !.overallScore = Num(70)]}

EntrySeqs(E, n) == UNION {[1..k -> E] : k \in 0..n}

EngineThrows == [ok |-> FALSE, message |-> "AI provider request failed"]

EngineAnswers ==
    {EngineThrows}
    \cup {[ok |-> TRUE, result |-> [competitor_scores |-> Arr(s), patterns |-> Undef]] :
            s \in EntrySeqs(Entries, MaxEntries)}
    \cup {[ok |-> TRUE, result |-> [competitor_scores |-> x, patterns |-> y]] :
            x \in {Undef, Obj, Num(0)},
            y \in {Undef, Obj} \cup {Arr(s) : s \in EntrySeqs(Entries, 1)}}

AliasAnswers ==
    {EngineThrows}
    \cup {[ok |-> TRUE, result |-> [competitor_scores |-> Arr(s), patterns |-> Undef]] :
            s \in EntrySeqs(AliasEntries, MaxEntries)}

\* the answers given to interleaved requests
ConcurrentAnswers ==
    {EngineThrows}
    \cup {[ok |-> TRUE, result |-> [competitor_scores |-> Arr(s), patterns |-> Undef]] :
            s \in EntrySeqs({[NoKeys EXCEPT !.competitorId = Str(CompKey(1)),
                                            !.overallScore = Num(80),
                                            !.strengths = Arr(<<"s1">>)],
                             [NoKeys EXCEPT !.name = Str(CompName(2)), !.overall = Num(60)]},
                            MaxConcurrentEntries)}

-----------------------------------------------------------------------------
(* buildAnalysisPrompt (competitor-analysis.ts 189-242): what it emits for *)
(* one competitor row.                                                     *)

\* scraped?.f : undefined when there is no scraped record
ScrapedText(c, f) == IF c.rawScrapedData = JsNull THEN NULL ELSE c.rawScrapedData[f]
ScrapedList(c, f) == IF c.rawScrapedData = JsNull THEN <<>> ELSE c.rawScrapedData[f]

\* list.join(', ') || 'N/A'
Joined(list) == [na |-> list = <<>>, items |-> list]

\* text.slice(0, n)
Slice(text, n) == SubSeq(text, 1, IF Len(text) < n THEN Len(text) ELSE n)

\* the competitor block with the scraped value before the manual one
CompetitorDetailsScrapedFirst(c) ==
    [name |-> c.name,
     url |-> OrElse(c.url, "N/A"),
     description |-> OrElse(ScrapedText(c, "description"), OrElse(c.description, "N/A")),
     tagline |-> OrElse(ScrapedText(c, "tagline"), OrElse(c.tagline, "N/A")),
     features |-> Joined(IF Len(c.features) > 0 THEN c.features
                         ELSE ScrapedList(c, "features")),
     pricing |-> OrElse(c.pricing, OrElse(ScrapedText(c, "pricing"), "N/A")),
     pageContent |-> Slice(ScrapedList(c, "bodyText"), PromptBodyMax)]

\* line 194-204: the block of one competitor
CompetitorDetails(c) ==
    [name |-> c.name,
     url |-> OrElse(c.url, "N/A"),
     description |-> OrElse(c.description, OrElse(ScrapedText(c, "description"), "N/A")),
     tagline |-> OrElse(c.tagline, OrElse(ScrapedText(c, "tagline"), "N/A")),
     features |-> Joined(IF Len(c.features) > 0 THEN c.features
                         ELSE ScrapedList(c, "features")),
     pricing |-> OrElse(c.pricing, OrElse(ScrapedText(c, "pricing"), "N/A")),
     pageContent |-> Slice(ScrapedList(c, "bodyText"), PromptBodyMax)]

\* line 113: the prompt over the competitors as loaded
buildAnalysisPrompt(rawCompetitors) ==
    [i \in DOMAIN rawCompetitors |-> CompetitorDetails(rawCompetitors[i].row)]

\* the engine's answers when only the prompt matters
PromptAnswers ==
    {EngineThrows,
     [ok |-> TRUE, result |-> [competitor_scores |-> Arr(<<>>), patterns |-> Undef]]}

-----------------------------------------------------------------------------
(* runAnalysis (competitor-analysis.ts 79-187), called by                  *)
(* POST /:id/analyze.                                                      *)

\* line 136: result?.competitor_scores || result?.patterns || []
competitorScores(result) ==
    IF Truthy(result.competitor_scores) THEN result.competitor_scores
    ELSE IF Truthy(result.patterns) THEN result.patterns
    ELSE Arr(<<>>)

\* line 140-142: analysis.competitors.find(...): the first in the loaded order
RECURSIVE FindMatch(_, _)
FindMatch(loaded, score) ==
    IF loaded = <<>> THEN NoRow
    ELSE IF Str(Head(loaded).id) = score.competitorId \/ Str(Head(loaded).row.name) = score.name
         THEN [found |-> TRUE, c |-> Head(loaded).c, row |-> Head(loaded).row]
         ELSE FindMatch(Tail(loaded), score)

\* the alias chain written with || instead of ??
ScoreOfTruthy(score, long, short) ==
    IF Truthy(score[long]) THEN score[long]
    ELSE IF Truthy(score[short]) THEN score[short] ELSE JsNull

\* line 147-151: score.xScore ?? score.x ?? null
ScoreOf(score, long, short) == Coalesce(score[long], Coalesce(score[short], JsNull))

\* the per-competitor write putting the entry's pricing into the pricing column
ScoreDataWithPricing(score, match) ==
    [overallScore |-> ScoreOf(score, "overallScore", "overall"),
     featureScore |-> ScoreOf(score, "featureScore", "features"),
     pricingScore |-> ScoreOf(score, "pricingScore", "pricing"),
     uxScore |-> ScoreOf(score, "uxScore", "ux"),
     marketScore |-> ScoreOf(score, "marketScore", "market"),
     scores |-> score,
     pricing |-> "scored",
     strengths |-> IF Truthy(score.strengths) THEN score.strengths.v ELSE match.strengths,
     weaknesses |-> IF Truthy(score.weaknesses) THEN score.weaknesses.v ELSE match.weaknesses]

\* line 146-155: the data of the per-competitor write
ScoreData(score, match) ==
    [overallScore |-> ScoreOf(score, "overallScore", "overall"),
     featureScore |-> ScoreOf(score, "featureScore", "features"),
     pricingScore |-> ScoreOf(score, "pricingScore", "pricing"),
     uxScore |-> ScoreOf(score, "uxScore", "ux"),
     marketScore |-> ScoreOf(score, "marketScore", "market"),
     scores |-> score,
     strengths |-> IF Truthy(score.strengths) THEN score.strengths.v ELSE match.strengths,
     weaknesses |-> IF Truthy(score.weaknesses) THEN score.weaknesses.v ELSE match.weaknesses]

\* prisma rejects a value that is not of the column's type (Float?, String[])
PrismaAccepts(score) ==
    /\ \A k \in {"overallScore", "featureScore", "pricingScore", "uxScore", "marketScore"} :
         ScoreData(score, [strengths |-> <<>>, weaknesses |-> <<>>])[k].t \in {"number", "null"}
    /\ \A k \in {"strengths", "weaknesses"} : ~Truthy(score[k]) \/ score[k].t = "array"

\* the overall scores read from overallScore alone
RECURSIVE NumericOverallsNoAlias(_)
NumericOverallsNoAlias(entries) ==
    IF entries = <<>> THEN <<>>
    ELSE LET s == Head(entries).overallScore
         IN  (IF s.t = "number" THEN <<s.v>> ELSE <<>>) \o NumericOverallsNoAlias(Tail(entries))

\* line 163-165: the numeric overall scores of the entries
RECURSIVE NumericOveralls(_)
NumericOveralls(entries) ==
    IF entries = <<>> THEN <<>>
    ELSE LET s == Coalesce(Head(entries).overallScore, Head(entries).overall)
         IN  (IF s.t = "number" THEN <<s.v>> ELSE <<>>) \o NumericOveralls(Tail(entries))

\* the mean that is 0 when there is nothing to average
MeanOrZero(nums) ==
    IF Len(nums) > 0 THEN [t |-> "number", num |-> SeqSum(nums), den |-> Len(nums)]
    ELSE [t |-> "number", num |-> 0, den |-> 1]

\* line 166-168: the mean, an exact fraction, or null
Mean(nums) ==
    IF Len(nums) > 0 THEN [t |-> "number", num |-> SeqSum(nums), den |-> Len(nums)]
    ELSE JsNull

AggregateScore(entries) == Mean(NumericOveralls(entries))

\* runAnalysis without the not-found test: it goes on with no competitors
runAnalysisCallNoCheck(p) ==
    /\ req[p].pc = "idle"
    /\ calls < MaxCalls
    /\ \E a \in {TheAnalysis, NoAnalysis} :
         \E order \in Orderings(IF a = TheAnalysis THEN CompIds ELSE {}) :
            req' = [req EXCEPT ![p] =
                      [Idle EXCEPT !.kind = "runAnalysis", !.pc = "ra_mark", !.aid = a,
                                   !.loaded = [found |-> TRUE,
                                               rows |-> [i \in DOMAIN order |->
                                                           [c |-> order[i],
                                                            id |-> CompKey(order[i]),
                                                            row |-> comp[order[i]]]]],
                                   !.pre = [found |-> TRUE, rows |-> comp],
                                   !.preStatus = analysis.status, !.preGets = gets,
                                   !.preAnalysis = analysis]]
    /\ calls' = calls + 1
    /\ UNCHANGED <<analysis, comp, gets>>

\* line 80-85: findUnique with the competitors (in an order of the store's)
runAnalysisCall(p) ==
    /\ req[p].pc = "idle"
    /\ calls < MaxCalls
    /\ \E a \in {TheAnalysis, NoAnalysis} :
         IF a = TheAnalysis
         THEN \E order \in Orderings(CompIds) :
                req' = [req EXCEPT ![p] =
                          [Idle EXCEPT !.kind = "runAnalysis", !.pc = "ra_mark", !.aid = a,
                                       !.loaded = [found |-> TRUE,
                                                   rows |-> [i \in DOMAIN order |->
                                                               [c |-> order[i],
                                                                id |-> CompKey(order[i]),
                                                                row |-> comp[order[i]]]]],
                                       !.pre = [found |-> TRUE, rows |-> comp],
                                       !.preStatus = analysis.status, !.preGets = gets,
                                       !.preAnalysis = analysis]]
         ELSE req' = [req EXCEPT ![p] =
                          [Idle EXCEPT !.kind = "runAnalysis", !.pc = "done", !.aid = a,
                                       !.pre = [found |-> TRUE, rows |-> comp],
                                       !.preStatus = analysis.status, !.preGets = gets,
                                       !.preAnalysis = analysis,
                                       !.outcome = Thrown("Analysis not found")]]
    /\ calls' = calls + 1
    /\ UNCHANGED <<analysis, comp, gets>>

\* line 87-90: the ANALYZING write
runAnalysisMark(p) ==
    /\ req[p].pc = "ra_mark"
    /\ analysis' = UpdateAnalysis(analysis, [status |-> "ANALYZING"])
    /\ req' = [req EXCEPT ![p].pc = "ra_engine"]
    /\ UNCHANGED <<comp, calls, gets>>

\* line 93-136: the engine call and its answer, one of Answers
runAnalysisEngineOn(p, Answers) ==
    /\ req[p].pc = "ra_engine"
    /\ \E ans \in Answers :
         IF ans.ok
         THEN req' = [req EXCEPT ![p].pc = "ra_loop", ![p].result = ans.result,
                                 ![p].entries = competitorScores(ans.result), ![p].idx = 1,
                                 ![p].prompt = buildAnalysisPrompt(req[p].loaded.rows)]
         ELSE req' = [req EXCEPT ![p].pc = "ra_catch", ![p].err = ans.message,
                                 ![p].prompt = buildAnalysisPrompt(req[p].loaded.rows)]
    /\ UNCHANGED <<analysis, comp, calls, gets>>

runAnalysisEngine(p) == runAnalysisEngineOn(p, EngineAnswers)

\* line 137-160: one iteration of the loop over the entries
runAnalysisLoop(p) ==
    /\ req[p].pc = "ra_loop"
    /\ LET entries == req[p].entries
       IN  IF entries.t # "array" \/ req[p].idx > Len(entries.v)
           THEN /\ req' = [req EXCEPT ![p].pc = "ra_mean"]
                /\ comp' = comp
           ELSE LET score == entries.v[req[p].idx]
                    match == FindMatch(req[p].loaded.rows, score)
                IN  IF score = JsNull
                    THEN /\ req' = [req EXCEPT ![p].pc = "ra_catch",
                                               ![p].err = "Cannot read properties of null"]
                         /\ comp' = comp
                    ELSE IF (Truthy(score.competitorId) \/ Truthy(score.name)) /\ match.found
                    THEN IF PrismaAccepts(score)
                         THEN /\ comp' = UpdateCompetitor(comp, match.c,
                                                          ScoreData(score, match.row))
                              /\ req' = [req EXCEPT ![p].idx = @ + 1]
                         ELSE /\ req' = [req EXCEPT ![p].pc = "ra_catch",
                                                    ![p].err = "Invalid value provided"]
                              /\ comp' = comp
                    ELSE /\ req' = [req EXCEPT ![p].idx = @ + 1]
                         /\ comp' = comp
    /\ UNCHANGED <<analysis, calls, gets>>

\* the COMPLETED write without the summary
runAnalysisCompleteNoSummary(p) ==
    /\ req[p].pc = "ra_mean"
    /\ IF req[p].entries.t # "array"
       THEN /\ req' = [req EXCEPT ![p].pc = "ra_catch",
                                  ![p].err = "competitorScores.map is not a function"]
            /\ analysis' = analysis
       ELSE /\ analysis' = UpdateAnalysis(analysis,
                               [status |-> "COMPLETED",
                                overallScore |-> AggregateScore(req[p].entries.v)])
            /\ req' = [req EXCEPT ![p].pc = "done", ![p].outcome = Returned(req[p].result)]
    /\ UNCHANGED <<comp, calls, gets>>

\* line 162-179: the aggregate score and the COMPLETED write
runAnalysisComplete(p) ==
    /\ req[p].pc = "ra_mean"
    /\ IF req[p].entries.t # "array"
       THEN /\ req' = [req EXCEPT ![p].pc = "ra_catch",
                                  ![p].err = "competitorScores.map is not a function"]
            /\ analysis' = analysis
       ELSE /\ analysis' = UpdateAnalysis(analysis,
                               [status |-> "COMPLETED", summary |-> req[p].result,
                                overallScore |-> AggregateScore(req[p].entries.v)])
            /\ req' = [req EXCEPT ![p].pc = "done", ![p].outcome = Returned(req[p].result)]
    /\ UNCHANGED <<comp, calls, gets>>

\* the catch block swallowing the error
runAnalysisCatchSwallow(p) ==
    /\ req[p].pc = "ra_catch"
    /\ analysis' = UpdateAnalysis(analysis, [status |-> "FAILED"])
    /\ req' = [req EXCEPT ![p].pc = "done", ![p].outcome = Returned(JsNull)]
    /\ UNCHANGED <<comp, calls, gets>>

\* the catch block putting the analysis back to DRAFT
runAnalysisCatchReset(p) ==
    /\ req[p].pc = "ra_catch"
    /\ analysis' = UpdateAnalysis(analysis, [status |-> "DRAFT"])
    /\ req' = [req EXCEPT ![p].pc = "done", ![p].outcome = Thrown(req[p].err)]
    /\ UNCHANGED <<comp, calls, gets>>

\* line 180-186: the FAILED write and the rethrow
runAnalysisCatch(p) ==
    /\ req[p].pc = "ra_catch"
    /\ analysis' = UpdateAnalysis(analysis, [status |-> "FAILED"])
    /\ req' = [req EXCEPT ![p].pc = "done", ![p].outcome = Thrown(req[p].err)]
    /\ UNCHANGED <<comp, calls, gets>>

-----------------------------------------------------------------------------
\* the route handler answers and the request is over
Respond(p) ==
    /\ req[p].pc = "done"
    /\ req' = [req EXCEPT ![p] = Idle]
    /\ UNCHANGED <<analysis, comp, calls, gets>>

Next ==
    \/ \E p \in Procs : scrapeCompetitorCall(p)
    \/ \E p \in Procs : scrapeCompetitorFind(p)
    \/ \E p \in Procs : scrapeCompetitorMark(p)
    \/ \E p \in Procs : scrapeCompetitorFetch(p)
    \/ \E p \in Procs : scrapeCompetitorReturn(p)
    \/ \E p \in Procs : scrapeAllPendingCall(p)
    \/ \E p \in Procs : scrapeAllPendingMark(p)
    \/ \E p \in Procs : scrapeAllPendingLoop(p)
    \/ \E p \in Procs : runAnalysisCall(p)
    \/ \E p \in Procs : runAnalysisMark(p)
    \/ \E p \in Procs : runAnalysisEngine(p)
    \/ \E p \in Procs : runAnalysisLoop(p)
    \/ \E p \in Procs : runAnalysisComplete(p)
    \/ \E p \in Procs : runAnalysisCatch(p)
    \/ \E p \in Procs : Respond(p)

Spec == Init /\ [][Next]_vars

\* the scrape operations alone, on competitors with any url
NextScrape ==
    \/ \E p \in Procs : scrapeCompetitorCall(p)
    \/ \E p \in Procs : scrapeCompetitorFind(p)
    \/ \E p \in Procs : scrapeCompetitorMark(p)
    \/ \E p \in Procs : scrapeCompetitorFetchOn(p, TRUE)
    \/ \E p \in Procs : scrapeCompetitorReturn(p)
    \/ \E p \in Procs : scrapeAllPendingCall(p)
    \/ \E p \in Procs : scrapeAllPendingMark(p)
    \/ \E p \in Procs : scrapeAllPendingLoop(p)
    \/ \E p \in Procs : Respond(p)

SpecScrape == InitScrape /\ [][NextScrape]_vars

\* runAnalysis alone, the engine answering with AliasAnswers
NextAnalyze ==
    \/ \E p \in Procs : runAnalysisCall(p)
    \/ \E p \in Procs : runAnalysisMark(p)
    \/ \E p \in Procs : runAnalysisEngineOn(p, AliasAnswers)
    \/ \E p \in Procs : runAnalysisLoop(p)
    \/ \E p \in Procs : runAnalysisComplete(p)
    \/ \E p \in Procs : runAnalysisCatch(p)
    \/ \E p \in Procs : Respond(p)

SpecAnalyze == InitAnalyze /\ [][NextAnalyze]_vars

\* runAnalysis alone on any rows, for the prompt it builds
NextPrompt ==
    \/ \E p \in Procs : runAnalysisCall(p)
    \/ \E p \in Procs : runAnalysisMark(p)
    \/ \E p \in Procs : runAnalysisEngineOn(p, PromptAnswers)
    \/ \E p \in Procs : runAnalysisLoop(p)
    \/ \E p \in Procs : runAnalysisComplete(p)
    \/ \E p \in Procs : runAnalysisCatch(p)
    \/ \E p \in Procs : Respond(p)

SpecPrompt == InitPrompt /\ [][NextPrompt]_vars

\* the two pipeline routes, the engine answering with ConcurrentAnswers
NextConcurrent ==
    \/ \E p \in Procs : scrapeCompetitorFind(p)
    \/ \E p \in Procs : scrapeCompetitorMark(p)
    \/ \E p \in Procs : scrapeCompetitorFetch(p)
    \/ \E p \in Procs : scrapeCompetitorReturn(p)
    \/ \E p \in Procs : scrapeAllPendingCall(p)
    \/ \E p \in Procs : scrapeAllPendingMark(p)
    \/ \E p \in Procs : scrapeAllPendingLoop(p)
    \/ \E p \in Procs : runAnalysisCall(p)
    \/ \E p \in Procs : runAnalysisMark(p)
    \/ \E p \in Procs : runAnalysisEngineOn(p, ConcurrentAnswers)
    \/ \E p \in Procs : runAnalysisLoop(p)
    \/ \E p \in Procs : runAnalysisComplete(p)
    \/ \E p \in Procs : runAnalysisCatch(p)
    \/ \E p \in Procs : Respond(p)

\* the route handlers as the router runs them: nothing keeps two apart
SpecConcurrent == InitConcurrent /\ [][NextConcurrent]_vars

-----------------------------------------------------------------------------
(* Properties.                                                             *)

StatusChange == <<analysis.status, analysis'.status>>

C1_Claimed ==
    {<<"DRAFT", "SCRAPING">>, <<"SCRAPING", "ANALYZING">>, <<"ANALYZING", "COMPLETED">>,
     <<"SCRAPING", "FAILED">>, <<"ANALYZING", "FAILED">>, <<"FAILED", "SCRAPING">>,
     <<"FAILED", "ANALYZING">>}

C1_Added ==
    {<<"DRAFT", "ANALYZING">>, <<"COMPLETED", "SCRAPING">>, <<"COMPLETED", "ANALYZING">>}

\* C1 as stated: over any sequence of scrapeAllPending and runAnalysis calls every
\* change of the Analysis status is one of the seven phase transitions (no DRAFT ->
\* ANALYZING, no COMPLETED -> SCRAPING or ANALYZING).
C1_OnlyPhaseTransitions ==
    [][analysis'.status # analysis.status => StatusChange \in C1_Claimed]_vars

\* C1 amended: every change of the Analysis status is one of the seven phase
\* transitions or DRAFT -> ANALYZING, COMPLETED -> SCRAPING, COMPLETED -> ANALYZING:
\* both calls write their status whatever the current one is.
C1_StatusTransitions ==
    [][analysis'.status # analysis.status => StatusChange \in C1_Claimed \cup C1_Added]_vars

\* a scrape batch has moved a COMPLETED analysis to SCRAPING
C1_Witness ==
    \E p \in Procs : /\ req[p].kind = "scrapeAllPending"
                     /\ req[p].preStatus = "COMPLETED"
                     /\ analysis.status = "SCRAPING"

\* a runAnalysis call on the existing Analysis that has ended
RunEnded(p) ==
    req[p].kind = "runAnalysis" /\ req[p].aid = TheAnalysis /\ req[p].pc = "done"

\* C3: a failing fetch or extraction inside scrapeCompetitor leaves the competitor
\* FAILED with scrapeError the failure's message, a non-empty string, and null is
\* returned; scrapeAllPending on an existing Analysis always returns a count.
C3_ScrapeFailureRecovered ==
    \A p \in Procs :
        /\ (req[p].pc = "sc_return" /\ req[p].err # NULL) =>
              /\ comp[req[p].cid].scrapeStatus = "FAILED"
              /\ comp[req[p].cid].scrapeError \notin {NULL, ""}
              /\ req[p].err # "" => comp[req[p].cid].scrapeError = req[p].err
              /\ req[p].last = Returned(JsNull)
        /\ (req[p].kind = "scrapeAllPending" /\ req[p].aid = TheAnalysis
              /\ req[p].pc = "done") =>
              /\ req[p].outcome.kind = "return"
              /\ req[p].outcome.value.t = "number"

\* a batch has returned its count after one of its competitors failed
C3_Witness ==
    \E p \in Procs :
        /\ req[p].kind = "scrapeAllPending" /\ req[p].pc = "done"
        /\ req[p].outcome.kind = "return"
        /\ \E i \in DOMAIN req[p].selected :
             /\ comp[req[p].selected[i]].scrapeStatus = "FAILED"
             /\ comp[req[p].selected[i]].scrapeError = "timeout of 15000ms exceeded"

\* the competitors of a batch whose own fetch succeeded / failed
FetchedOk(p) == {req[p].log[i].c : i \in {j \in DOMAIN req[p].log : req[p].log[j].ok}}
FetchFailed(p) == {req[p].log[i].c : i \in {j \in DOMAIN req[p].log : ~req[p].log[j].ok}}
SelectedSet(p) == {req[p].selected[i] : i \in DOMAIN req[p].selected}

BatchEnded(p) ==
    req[p].kind = "scrapeAllPending" /\ req[p].aid = TheAnalysis /\ req[p].pc = "done"

\* C4: in a batch, the steps made for one competitor change no other
\* competitor's row, every selected competitor is attempted, and each one whose
\* own fetch succeeded ends the batch COMPLETED, wherever the failing one stands.
C4_Isolation ==
    /\ [][\A p \in Procs :
            (req[p].kind = "scrapeAllPending" /\ req[p].pc \in {"sc_find", "sc_mark", "sc_fetch"})
            => \A d \in CompIds \ {req[p].cid} : comp'[d] = comp[d]]_vars
    /\ [](\A p \in Procs : BatchEnded(p) =>
            /\ FetchedOk(p) \cup FetchFailed(p) = SelectedSet(p)
            /\ \A c \in FetchedOk(p) : comp[c].scrapeStatus = "COMPLETED"
            /\ \A c \in FetchFailed(p) : comp[c].scrapeStatus = "FAILED")

\* a batch of two has ended: the first failed, the second is COMPLETED
C4_Witness ==
    \E p \in Procs :
        /\ BatchEnded(p) /\ Len(req[p].selected) = 2
        /\ comp[req[p].selected[1]].scrapeStatus = "FAILED"
        /\ comp[req[p].selected[2]].scrapeStatus = "COMPLETED"

\* the competitors that are PENDING with a URL when the batch starts
PendingWithUrl(rows) == {c \in CompIds : rows[c].scrapeStatus = "PENDING" /\ rows[c].url # NULL}

\* C5: a batch modifies exactly the competitors that were PENDING with a URL,
\* none of the others, and returns the number of them that ended COMPLETED.
C5_TouchesExactlyPending ==
    \A p \in Procs : BatchEnded(p) =>
        LET N == PendingWithUrl(req[p].pre.rows)
        IN  /\ \A c \in N : comp[c] # req[p].pre.rows[c]
            /\ \A c \in CompIds \ N : comp[c] = req[p].pre.rows[c]
            /\ req[p].outcome =
                 Returned(Num(Cardinality({c \in N : comp[c].scrapeStatus = "COMPLETED"})))
            /\ req[p].outcome.value.v <= Cardinality(N)

\* a batch over one pending competitor, beside one already scraped, returned 0
C5_Witness ==
    \E p \in Procs :
        /\ BatchEnded(p)
        /\ Cardinality(PendingWithUrl(req[p].pre.rows)) = 1
        /\ \E c \in CompIds : req[p].pre.rows[c].scrapeStatus \in {"COMPLETED", "FAILED"}
        /\ req[p].outcome = Returned(Num(0))

\* the overall score of an entry: overallScore, else overall
OverallOf(e) == IF e.overallScore.t \in {"undefined", "null"} THEN e.overall ELSE e.overallScore

NumericIdx(es) == {i \in DOMAIN es : OverallOf(es[i]).t = "number"}

RECURSIVE SumOver(_, _)
SumOver(es, I) ==
    IF I = {} THEN 0
    ELSE LET i == CHOOSE j \in I : TRUE
         IN  OverallOf(es[i]).v + SumOver(es, I \ {i})

\* x is the arithmetic mean of the overall scores of the entries I of es,
\* and null when I is empty
IsMeanOf(x, es, I) ==
    IF I = {} THEN x = JsNull
    ELSE /\ x.t = "number"
         /\ x.den > 0
         /\ x.num * Cardinality(I) = SumOver(es, I) * x.den

\* C2: a runAnalysis call on an existing Analysis ends either returning the
\* engine's raw result with the Analysis COMPLETED (summary and aggregate score
\* written by the write that sets COMPLETED), or throwing the error that was raised
\* with the Analysis FAILED; never returning with FAILED, never left ANALYZING.
C2_RunEndsCompletedOrFailed ==
    /\ [](\A p \in Procs : RunEnded(p) =>
            \/ /\ req[p].outcome = Returned(req[p].result)
               /\ req[p].result # Undef
               /\ analysis.status = "COMPLETED"
               /\ analysis.summary = req[p].result
            \/ /\ req[p].outcome.kind = "throw"
               /\ req[p].err # NULL
               /\ req[p].outcome.message = req[p].err
               /\ analysis.status = "FAILED")
    /\ [][(analysis'.status = "COMPLETED" /\ analysis' # analysis) =>
            \E p \in Procs :
                /\ req[p].pc = "ra_mean"
                /\ analysis'.summary = req[p].result
                /\ IsMeanOf(analysis'.overallScore, req[p].entries.v,
                            NumericIdx(req[p].entries.v))]_vars

\* a run has thrown, the Analysis FAILED, after the engine had answered
C2_Witness ==
    \E p \in Procs : /\ RunEnded(p)
                     /\ req[p].outcome.kind = "throw"
                     /\ req[p].result # Undef
                     /\ analysis.status = "FAILED"

RunReturned(p) == RunEnded(p) /\ req[p].outcome.kind = "return"

\* C6: after a successful runAnalysis the aggregate score is the mean of the
\* numeric overall scores (overallScore, else overall) of all returned entries,
\* matched or not, and null when no entry has one.
C6_AggregateOverAllEntries ==
    \A p \in Procs : RunReturned(p) =>
        IsMeanOf(analysis.overallScore, req[p].entries.v, NumericIdx(req[p].entries.v))

\* a run has returned with an unmatched entry averaged in and an entry without
\* an overall score left out
C6_Witness ==
    \E p \in Procs :
        /\ RunReturned(p)
        /\ Len(req[p].entries.v) = 2
        /\ req[p].entries.v[1].name = Str("Z")
        /\ OverallOf(req[p].entries.v[2]) = Undef
        /\ analysis.overallScore = [t |-> "number", num |-> 90, den |-> 1]

\* the entries of es that runAnalysis matched to a competitor it had loaded
MatchedIdx(p, es) ==
    {i \in DOMAIN es : /\ Truthy(es[i].competitorId) \/ Truthy(es[i].name)
                       /\ \E c \in CompIds : \/ es[i].competitorId = Str(CompKey(c))
                                             \/ es[i].name = Str(req[p].pre.rows[c].name)}

\* C7 as stated: after a successful runAnalysis the aggregate score is the mean
\* of the numeric overall scores of the entries matched to a competitor only.
C7_AggregateOverMatchedEntries ==
    \A p \in Procs : RunReturned(p) =>
        IsMeanOf(analysis.overallScore, req[p].entries.v,
                 NumericIdx(req[p].entries.v) \cap MatchedIdx(p, req[p].entries.v))

\* C7 amended: the write that completes a run sets the aggregate score to the
\* mean of the numeric overallScore/overall values of all returned entries,
\* matched to a competitor or not, and to null when no entry is numeric.
C7_AggregateIgnoresMatching ==
    [][\A p \in Procs :
         (req[p].pc = "ra_mean" /\ req'[p].pc = "done") =>
            /\ analysis'.status = "COMPLETED"
            /\ IsMeanOf(analysis'.overallScore, req[p].entries.v,
                        NumericIdx(req[p].entries.v))]_vars

\* a run has completed with aggregate 85: an unmatched 90 and a matched 80
C7_Witness ==
    \E p \in Procs :
        /\ RunReturned(p)
        /\ analysis.status = "COMPLETED"
        /\ analysis.overallScore = [t |-> "number", num |-> 170, den |-> 2]
        /\ \E i \in DOMAIN req[p].entries.v : i \notin MatchedIdx(p, req[p].entries.v)

\* the competitors whose overallScore is set
Scored == {c \in CompIds : comp[c].overallScore # JsNull}

RECURSIVE StoredSum(_)
StoredSum(S) ==
    IF S = {} THEN 0
    ELSE LET c == CHOOSE d \in S : TRUE IN comp[c].overallScore.v + StoredSum(S \ {c})

\* C8 as stated: whenever the Analysis is COMPLETED its aggregate score is the
\* mean of the overallScore values stored on its Competitors.
C8_AggregateIsMeanOfStored ==
    analysis.status = "COMPLETED" =>
        IF Scored = {} THEN analysis.overallScore = JsNull
        ELSE /\ analysis.overallScore.t = "number"
             /\ analysis.overallScore.num * Cardinality(Scored)
                  = StoredSum(Scored) * analysis.overallScore.den

\* C8 amended: whenever the Analysis is COMPLETED its aggregate score is the mean
\* of the numeric overall scores of the entries of the engine response stored as
\* its summary (the last run's), not of the scores stored on its Competitors.
C8_AggregateIsMeanOfSummary ==
    analysis.status = "COMPLETED" =>
        /\ analysis.summary # JsNull
        /\ LET es == competitorScores(analysis.summary).v
           IN  IsMeanOf(analysis.overallScore, es, NumericIdx(es))

\* COMPLETED after a re-run that left competitor 1 out: aggregate 60, stored 80 and 60
C8_Witness ==
    /\ analysis.status = "COMPLETED"
    /\ analysis.overallScore = [t |-> "number", num |-> 60, den |-> 1]
    /\ comp[1].overallScore = Num(80)
    /\ comp[2].overallScore = Num(60)

InRange(x) == x = JsNull \/ (x.t = "number" /\ 0 <= x.v /\ x.v <= 100)

\* C9: every score of every Competitor is unset or in 0..100, and the aggregate
\* score of the Analysis is unset or in 0..100, whatever the engine returned.
C9_ScoresInRange ==
    /\ \A c \in CompIds :
         \A k \in {"overallScore", "featureScore", "pricingScore", "uxScore", "marketScore"} :
            InRange(comp[c][k])
    /\ \/ analysis.overallScore = JsNull
       \/ /\ 0 <= analysis.overallScore.num
          /\ analysis.overallScore.num <= 100 * analysis.overallScore.den

\* C10: scrapeCompetitor on a competitor without URL returns null, writes
\* nothing and fetches nothing; through any sequence of calls such a competitor
\* keeps its initial scrape status.
C10_NoUrlNoWrite ==
    /\ \A p \in Procs :
         (/\ req[p].kind = "scrapeCompetitor"
          /\ req[p].pc \in {"sc_return", "done"}
          /\ req[p].cid \in CompIds
          /\ req[p].pre.rows[req[p].cid].url = NULL) =>
            /\ comp = req[p].pre.rows
            /\ gets = req[p].preGets
            /\ req[p].last = Returned(JsNull)
            /\ req[p].pc = "done" => req[p].outcome = Returned(JsNull)
    /\ \A c \in CompIds : comp[c].url = NULL =>
            /\ comp[c].scrapeStatus = "PENDING"
            /\ comp[c].scrapeError = NULL
            /\ comp[c].scrapedAt = NULL
            /\ comp[c].rawScrapedData = JsNull
            /\ gets[c] = 0

\* scrapeCompetitor has returned null for a competitor without URL, as the
\* second call of a sequence
C10_Witness ==
    \E p \in Procs : /\ req[p].kind = "scrapeCompetitor"
                     /\ req[p].pc = "done"
                     /\ req[p].cid \in CompIds
                     /\ comp[req[p].cid].url = NULL
                     /\ req[p].outcome = Returned(JsNull)
                     /\ calls = 2

\* C11 as claimed: no competitor is fetched more than once across any sequence
\* of scrape operations, and no step sets a competitor back to PENDING.
C11_FetchedAtMostOnce ==
    /\ [](\A c \in CompIds : gets[c] <= 1)
    /\ [][\A c \in CompIds :
            comp[c].scrapeStatus # "PENDING" => comp'[c].scrapeStatus # "PENDING"]_vars

\* C11: a competitor's scrape status becomes COMPLETED or FAILED only in the
\* step that ends a scrape attempt on it; no step sets a competitor that left
\* PENDING back to PENDING; scrapeAllPending attempts only competitors that were
\* PENDING when it started and were never fetched before, while a direct
\* scrapeCompetitor call scrapes again whatever the status.
C11_ScrapeStatusDiscipline ==
    /\ [][\A c \in CompIds :
            /\ comp[c].scrapeStatus # "PENDING" => comp'[c].scrapeStatus # "PENDING"
            /\ (/\ comp'[c].scrapeStatus # comp[c].scrapeStatus
                /\ comp'[c].scrapeStatus \in {"COMPLETED", "FAILED"})
               => \E p \in Procs : /\ req[p].pc = "sc_fetch" /\ req[p].cid = c
                                   /\ req'[p].pc = "sc_return"
                                   /\ Len(req'[p].log) = Len(req[p].log) + 1]_vars
    /\ [](\A p \in Procs :
            (req[p].kind = "scrapeAllPending"
               /\ req[p].pc \in {"sc_find", "sc_mark", "sc_fetch"})
            => /\ req[p].pre.rows[req[p].cid].scrapeStatus = "PENDING"
               /\ gets[req[p].cid] = 0)

\* a direct scrapeCompetitor call has fetched a competitor a second time
C11_Witness ==
    \E p \in Procs : /\ req[p].kind = "scrapeCompetitor" /\ req[p].pc = "done"
                     /\ req[p].cid \in CompIds
                     /\ req[p].pre.rows[req[p].cid].scrapeStatus \in {"COMPLETED", "FAILED"}
                     /\ gets[req[p].cid] = 2
                     /\ comp[req[p].cid].scrapeStatus = "COMPLETED"

\* C12: runAnalysis on an id that matches no Analysis fails with 'Analysis not
\* found' at once: no row is written and the engine is not called.
C12_NotFoundBeforeAnyWrite ==
    \A p \in Procs :
        (req[p].kind = "runAnalysis" /\ req[p].aid = NoAnalysis) =>
            /\ req[p].pc = "done"
            /\ req[p].outcome = Thrown("Analysis not found")
            /\ analysis = req[p].preAnalysis
            /\ comp = req[p].pre.rows
            /\ req[p].result = Undef /\ req[p].entries = Undef /\ req[p].err = NULL

\* runAnalysis on an unknown id has failed after an earlier run completed
C12_Witness ==
    \E p \in Procs : /\ req[p].kind = "runAnalysis" /\ req[p].aid = NoAnalysis
                     /\ req[p].outcome = Thrown("Analysis not found")
                     /\ analysis.status = "COMPLETED"
                     /\ \E c \in CompIds : comp[c].overallScore # JsNull

\* C13: scrapeCompetitor on an id that matches no Competitor ends with a thrown
\* not-found error, never with the null it returns for a competitor without URL.
C13_UnknownCompetitorThrows ==
    \A p \in Procs :
        (req[p].kind = "scrapeCompetitor" /\ req[p].cid \notin CompIds
           /\ req[p].pc = "done") =>
            /\ req[p].outcome.kind = "throw"
            /\ req[p].outcome # Returned(JsNull)

\* a Competitor row as it is before any run wrote to it
FreshRow(row) ==
    [row EXCEPT !.overallScore = JsNull, !.featureScore = JsNull, !.pricingScore = JsNull,
                !.uxScore = JsNull, !.marketScore = JsNull, !.scores = JsNull,
                !.strengths = <<>>, !.weaknesses = <<>>]

\* the rows a run that does not fail leaves when it applies the entries es to
\* rows, matching against the competitors as it loaded them
RECURSIVE FirstRunRows(_, _, _)
FirstRunRows(rows, loaded, es) ==
    IF es = <<>> THEN rows
    ELSE LET score == Head(es)
             match == FindMatch(loaded, score)
         IN  IF (Truthy(score.competitorId) \/ Truthy(score.name)) /\ match.found
             THEN FirstRunRows(UpdateCompetitor(rows, match.c, ScoreData(score, match.row)),
                               loaded, Tail(es))
             ELSE FirstRunRows(rows, loaded, Tail(es))

\* C14: a runAnalysis that returns after a failed first run leaves the Analysis
\* COMPLETED with the response as summary and the Competitors exactly as a first
\* run with the same response would have left them: nothing the failed run
\* wrote is still there.
C14_RetryAsFirstRun ==
    \A p \in Procs :
        (RunReturned(p) /\ req[p].preStatus = "FAILED" /\ calls = 2) =>
            LET fresh == [c \in CompIds |-> FreshRow(req[p].pre.rows[c])]
                loaded == [i \in DOMAIN req[p].loaded.rows |->
                             [req[p].loaded.rows[i] EXCEPT !.row = FreshRow(@)]]
            IN  /\ analysis.status = "COMPLETED"
                /\ analysis.summary = req[p].result
                /\ comp = FirstRunRows(fresh, loaded, req[p].entries.v)

\* the urls whose scheme is neither http nor https
OtherSchemeUrls == {"ftp://a.test", "file:///etc/passwd", "javascript:alert(1)"}

\* C16: a competitor whose url has a scheme other than http/https is never
\* fetched (zero GETs), and once scrapeCompetitor has attempted it the
\* competitor is FAILED with scrapeError 'Only HTTP/HTTPS URLs are supported'
\* and null is returned.
C16_OtherSchemeFailsWithoutGet ==
    /\ \A c \in CompIds : comp[c].url \in OtherSchemeUrls =>
          /\ gets[c] = 0
          /\ comp[c].scrapeStatus \in {"PENDING", "SCRAPING", "FAILED"}
          /\ comp[c].scrapeStatus = "FAILED" =>
                comp[c].scrapeError = "Only HTTP/HTTPS URLs are supported"
    /\ \A p \in Procs :
          (/\ req[p].pc \in {"sc_return", "done"} /\ req[p].cid \in CompIds
           /\ req[p].kind \in {"scrapeCompetitor", "scrapeAllPending"}
           /\ comp[req[p].cid].url \in OtherSchemeUrls) =>
              /\ comp[req[p].cid].scrapeStatus = "FAILED"
              /\ req[p].last = Returned(JsNull)

\* scrapeCompetitor has returned null for a file: url and for no GET, the
\* competitor FAILED with the message stored
C16_Witness ==
    \E p \in Procs : /\ req[p].kind = "scrapeCompetitor" /\ req[p].pc = "done"
                     /\ req[p].cid \in CompIds
                     /\ comp[req[p].cid].url = "file:///etc/passwd"
                     /\ comp[req[p].cid].scrapeStatus = "FAILED"
                     /\ comp[req[p].cid].scrapeError = "Only HTTP/HTTPS URLs are supported"
                     /\ gets[req[p].cid] = 0
                     /\ req[p].outcome = Returned(JsNull)

\* C17: the entries of a run are the competitor_scores array if there is one,
\* else the patterns array if there is one; when neither is an array (absent,
\* an object, a number) the run returns, the Analysis is COMPLETED with no
\* aggregate score and no Competitor is changed.
C17_NonArrayIsEmptyResult ==
    \A p \in Procs :
        (RunEnded(p) /\ req[p].result # Undef) =>
            LET cs == req[p].result.competitor_scores
                pt == req[p].result.patterns
            IN  /\ cs.t = "array" => req[p].entries = cs
                /\ (cs.t # "array" /\ pt.t = "array") => req[p].entries = pt
                /\ (cs.t # "array" /\ pt.t # "array") =>
                      /\ req[p].outcome.kind = "return"
                      /\ analysis.status = "COMPLETED"
                      /\ analysis.overallScore = JsNull
                      /\ comp = req[p].pre.rows

\* the entry the loop of request p is about to process
AtEntry(p) ==
    /\ req[p].kind = "runAnalysis" /\ req[p].pc = "ra_loop"
    /\ req[p].entries.t = "array" /\ req[p].idx <= Len(req[p].entries.v)
    /\ req[p].entries.v[req[p].idx] # JsNull

\* the competitor the entry e is meant for: the one with its competitorId,
\* and only when there is none the one(s) with its name
MatchById(e) == {c \in CompIds : e.competitorId = Str(CompKey(c))}
MatchByName(e) == {c \in CompIds : e.name = Str(comp[c].name)}
IdFirstMatch(e) == IF MatchById(e) # {} THEN MatchById(e) ELSE MatchByName(e)

\* C18: the step that processes an entry writes it to the competitor with the
\* entry's competitorId, and only if there is none to the competitor with its
\* name, whatever the order the competitors were loaded in; it changes no
\* other Competitor, and an entry matching none is passed over without error.
C18_IdMatchFirst ==
    [][\A p \in Procs : AtEntry(p) =>
          LET e == req[p].entries.v[req[p].idx]
          IN  /\ \A d \in CompIds \ IdFirstMatch(e) : comp'[d] = comp[d]
              /\ \A c \in IdFirstMatch(e) : comp'[c].scores = e
              /\ IdFirstMatch(e) = {} => req'[p].pc = "ra_loop" /\ req'[p].idx = req[p].idx + 1]_vars

\* the entry supplies a non-empty list under key k
SuppliesList(e, k) == e[k].t = "array" /\ e[k].v # <<>>

\* C19: the step that writes a matched entry replaces the competitor's
\* strengths (weaknesses) by the entry's list if that list is non-empty, and
\* leaves them as they are if the entry has no list or an empty one.
C19_ListsReplacedOnlyIfNonEmpty ==
    [][\A p \in Procs : AtEntry(p) =>
          LET e == req[p].entries.v[req[p].idx]
          IN  \A c \in CompIds : \A k \in {"strengths", "weaknesses"} :
                 comp'[c] # comp[c] =>
                    comp'[c][k] = IF SuppliesList(e, k) THEN e[k].v ELSE comp[c][k]]_vars

\* the five score dimensions and the column / entry key xScore of each
Dimensions == {"overall", "feature", "pricing", "ux", "market"}

ScoreKey(x) ==
    CASE x = "overall" -> "overallScore"
      [] x = "feature" -> "featureScore"
      [] x = "pricing" -> "pricingScore"
      [] x = "ux" -> "uxScore"
      [] x = "market" -> "marketScore"

\* the key read when xScore is missing: the bare x, but `features` for feature
AliasKey(x) == IF x = "feature" THEN "features" ELSE x

\* a value that is neither undefined nor null
Present(v) == v.t \notin {"undefined", "null"}

\* C20 as claimed: the step that writes a matched entry persists, for each
\* dimension x, the entry's xScore if the entry has that key, else its bare
\* key x, else unset.
C20_ScoreKeyThenBareKey ==
    [][\A p \in Procs : AtEntry(p) =>
          LET e == req[p].entries.v[req[p].idx]
          IN  \A c \in CompIds : comp'[c] # comp[c] =>
                 \A x \in Dimensions :
                    comp'[c][ScoreKey(x)] =
                       IF e[ScoreKey(x)] # Undef THEN e[ScoreKey(x)]
                       ELSE IF e[x] # Undef THEN e[x] ELSE JsNull]_vars

\* C20: the step that writes a matched entry persists, for each dimension x,
\* the entry's xScore if it is neither undefined nor null (0 included), else
\* the alias key (overall, features, pricing, ux, market) if that is neither
\* undefined nor null, else unset.
C20_ScoreKeyThenAlias ==
    [][\A p \in Procs : AtEntry(p) =>
          LET e == req[p].entries.v[req[p].idx]
          IN  \A c \in CompIds : comp'[c] # comp[c] =>
                 \A x \in Dimensions :
                    comp'[c][ScoreKey(x)] =
                       IF Present(e[ScoreKey(x)]) THEN e[ScoreKey(x)]
                       ELSE IF Present(e[AliasKey(x)]) THEN e[AliasKey(x)] ELSE JsNull]_vars

\* one run has written an overallScore 0 over a bare overall 50 and ignored a
\* bare feature key, and a null overallScore has given way to the bare overall
C20_Witness ==
    /\ comp[1].overallScore = Num(0) /\ comp[1].scores.overall = Num(50)
    /\ comp[1].featureScore = JsNull /\ comp[1].scores.feature = Num(70)
    /\ comp[2].overallScore = Num(50) /\ comp[2].scores.overallScore = JsNull
    /\ comp[2].featureScore = Num(40) /\ comp[2].uxScore = Num(10)

\* a request that has started and not yet ended
InFlight(p) == req[p].pc \notin {"idle", "done"}

\* C15: no two pipeline operations on the same analysis id are in flight
\* together: a second scrapeAllPending or runAnalysis for an analysis starts
\* only after the first has ended, so no row is written by two at once.
C15_OneOperationPerAnalysis ==
    \A p, q \in Procs :
        (p # q /\ InFlight(p) /\ InFlight(q)) => req[p].aid # req[q].aid

\* the step of request p that ends a fetch with the scraped record
FetchSucceeds(p) ==
    /\ req[p].pc = "sc_fetch" /\ req'[p].pc = "sc_return"
    /\ req'[p].last # Returned(JsNull)

\* C21: the step that ends a successful fetch writes COMPLETED, the scrape
\* timestamp and the scraped record, and each of tagline, description,
\* features, pricing is the scraped value if that is non-empty and the
\* competitor's stored value otherwise, each field on its own.
C21_ConditionalOverwrite ==
    [][\A p \in Procs : FetchSucceeds(p) =>
          LET c == req[p].cid
              data == req'[p].last.value
          IN  /\ comp'[c].scrapeStatus = "COMPLETED"
              /\ comp'[c].scrapedAt # NULL
              /\ comp'[c].rawScrapedData = data
              /\ \A f \in {"tagline", "description", "pricing"} :
                    comp'[c][f] = IF data[f] # "" THEN data[f] ELSE comp[c][f]
              /\ comp'[c].features = IF data.features # <<>> THEN data.features
                                     ELSE comp[c].features]_vars

\* a page with a tagline and features only has been scraped: they are stored,
\* and the manual description and pricing are still there
C21_Witness ==
    \E p \in Procs :
        /\ req[p].pc = "sc_return" /\ req[p].last # Returned(JsNull)
        /\ req[p].last.value.tagline = "st" /\ req[p].last.value.description = ""
        /\ comp[req[p].cid].scrapeStatus = "COMPLETED"
        /\ comp[req[p].cid].tagline = "st" /\ comp[req[p].cid].features = <<"sf">>
        /\ comp[req[p].cid].description = "md" /\ comp[req[p].cid].pricing = "mp"

\* C22: while the fetch of a competitor is in flight its stored status is
\* SCRAPING and no GET of this attempt has been counted yet; a status becomes
\* COMPLETED or FAILED only from SCRAPING, in the step that ends the fetch.
C22_ScrapingBeforeFetch ==
    /\ [](\A p \in Procs : req[p].pc = "sc_fetch" =>
            /\ comp[req[p].cid].scrapeStatus = "SCRAPING"
            /\ gets[req[p].cid] = req[p].preGets[req[p].cid])
    /\ [][\A c \in CompIds :
            (/\ comp'[c].scrapeStatus # comp[c].scrapeStatus
             /\ comp'[c].scrapeStatus \in {"COMPLETED", "FAILED"})
            => /\ comp[c].scrapeStatus = "SCRAPING"
               /\ \E p \in Procs : req[p].pc = "sc_fetch" /\ req[p].cid = c]_vars

\* the fetch of a competitor that was PENDING is in flight: the store says
\* SCRAPING and nothing has been fetched
C22_Witness ==
    \E p \in Procs : /\ req[p].pc = "sc_fetch"
                     /\ req[p].pre.rows[req[p].cid].scrapeStatus = "PENDING"
                     /\ comp[req[p].cid].scrapeStatus = "SCRAPING"
                     /\ comp[req[p].cid].scrapedAt = NULL
                     /\ gets[req[p].cid] = 0

\* C23: a competitor whose scrape status is not FAILED has no scrapeError.
C23_ErrorOnlyWhenFailed ==
    \A c \in CompIds : comp[c].scrapeStatus # "FAILED" => comp[c].scrapeError = NULL

\* a text value that is there: neither null nor empty
HasText(v) == v # NULL /\ v # ""

\* the prompt of request p is built
PromptBuilt(p) == req[p].kind = "runAnalysis" /\ req[p].prompt # <<>>

\* what the prompt shows of a list, and of the body text, for row c
ShownFeatures(c) ==
    LET list == IF c.features # <<>> THEN c.features
                ELSE IF c.rawScrapedData = JsNull THEN <<>> ELSE c.rawScrapedData.features
    IN  [na |-> list = <<>>, items |-> list]

IsPrefixUpTo(out, c, n) ==
    LET body == IF c.rawScrapedData = JsNull THEN <<>> ELSE c.rawScrapedData.bodyText
    IN  /\ Len(out) = (IF Len(body) < n THEN Len(body) ELSE n)
        /\ \A i \in 1..Len(out) : out[i] = body[i]

C25_ReturnsCompletedOrFailed ==
    \A p \in Procs :
        (/\ req[p].kind = "scrapeCompetitor" /\ req[p].pc = "done"
         /\ req[p].cid \in CompIds /\ comp[req[p].cid].url # NULL) =>
            LET row == comp[req[p].cid]
            IN  /\ req[p].outcome.kind = "return"
                /\ row.scrapeStatus \in {"COMPLETED", "FAILED"}
                /\ row.scrapeStatus = "COMPLETED" <=> req[p].outcome.value # JsNull
                /\ row.scrapeStatus = "COMPLETED" =>
                      row.rawScrapedData = req[p].outcome.value /\ row.scrapedAt # NULL
                /\ row.scrapeStatus = "FAILED" <=> req[p].outcome.value = JsNull
                /\ row.scrapeStatus = "FAILED" => row.scrapeError \notin {NULL, ""}

\* a second scrapeCompetitor call on a FAILED competitor has returned the record
C25_Witness ==
    \E p \in Procs : /\ req[p].kind = "scrapeCompetitor" /\ req[p].pc = "done"
                     /\ req[p].cid \in CompIds
                     /\ req[p].pre.rows[req[p].cid].scrapeStatus = "FAILED"
                     /\ req[p].outcome.value # JsNull
                     /\ comp[req[p].cid].scrapeStatus = "COMPLETED"
                     /\ comp[req[p].cid].rawScrapedData = req[p].outcome.value

\* C26: a run that has ended with the Analysis FAILED has changed no
\* Competitor: every row is as it was when the run started.
C26_FailedRunWritesNothing ==
    \A p \in Procs :
        (RunEnded(p) /\ req[p].outcome.kind = "throw" /\ analysis.status = "FAILED") =>
            \A c \in CompIds :
                \A k \in {"overallScore", "featureScore", "pricingScore", "uxScore",
                          "marketScore", "scores", "strengths", "weaknesses"} :
                    comp[c][k] = req[p].pre.rows[c][k]

\* the only requests there are or were are two scrapeAllPending calls
TwoBatches ==
    /\ Cardinality(Procs) = 2
    /\ \A p \in Procs : req[p].kind = "scrapeAllPending" /\ req[p].aid = TheAnalysis

\* C27: when two scrapeAllPending calls for the analysis overlap, no competitor
\* is fetched twice, and no step takes a COMPLETED competitor to SCRAPING or
\* FAILED.
C27_OverlappingBatchesDisjoint ==
    /\ [](TwoBatches => \A c \in CompIds : gets[c] <= 1)
    /\ [][TwoBatches =>
            \A c \in CompIds : comp[c].scrapeStatus = "COMPLETED" =>
                                  comp'[c].scrapeStatus = "COMPLETED"]_vars

\* C28: while the Analysis is COMPLETED no Competitor is SCRAPING, and the
\* batch whose write takes the Analysis from COMPLETED to SCRAPING started when
\* the Analysis was already COMPLETED.
C28_CompletedIsQuiescent ==
    /\ [](analysis.status = "COMPLETED" =>
            \A c \in CompIds : comp[c].scrapeStatus # "SCRAPING")
    /\ [][(analysis.status = "COMPLETED" /\ analysis'.status = "SCRAPING") =>
            \E p \in Procs : /\ req[p].pc = "sa_mark" /\ req'[p].pc = "sa_loop"
                             /\ req[p].preStatus = "COMPLETED"]_vars

\* a batch on the Analysis that follows an earlier batch at once
SecondBatch(p) ==
    /\ req[p].kind = "scrapeAllPending" /\ req[p].aid = TheAnalysis
    /\ calls = 2 /\ req[p].preStatus = "SCRAPING"

\* C29: a batch never selects a competitor that was not PENDING when it
\* started and leaves its row as it was; a batch that follows another batch
\* at once selects nothing, fetches nothing, changes no Competitor and returns 0.
C29_SecondBatchDoesNothing ==
    \A p \in Procs :
        /\ (req[p].kind = "scrapeAllPending" /\ req[p].aid = TheAnalysis) =>
              \A c \in CompIds : req[p].pre.rows[c].scrapeStatus # "PENDING" =>
                 /\ \A i \in DOMAIN req[p].selected : req[p].selected[i] # c
                 /\ comp[c] = req[p].pre.rows[c]
                 /\ gets[c] = req[p].preGets[c]
        /\ SecondBatch(p) =>
              /\ req[p].selected = <<>>
              /\ comp = req[p].pre.rows
              /\ gets = req[p].preGets
              /\ req[p].pc = "done" => req[p].outcome = Returned(Num(0))

\* a second batch has returned 0 although the first left a competitor FAILED
C29_Witness ==
    \E p \in Procs : /\ SecondBatch(p) /\ req[p].pc = "done"
                     /\ req[p].outcome = Returned(Num(0))
                     /\ \E c \in CompIds : comp[c].scrapeStatus = "FAILED" /\ gets[c] = 1
                     /\ \E c \in CompIds : comp[c].scrapeStatus = "COMPLETED"

\* the columns of a Competitor each phase writes
ScrapeColumns ==
    {"scrapeStatus", "scrapeError", "scrapedAt", "rawScrapedData", "tagline",
     "description", "features", "pricing"}

ScoreColumns ==
    {"overallScore", "featureScore", "pricingScore", "uxScore", "marketScore", "scores",
     "strengths", "weaknesses"}

\* C30: from its start on, a runAnalysis call has changed no scrape column of
\* any Competitor; a scrapeCompetitor or scrapeAllPending call has changed no
\* score column of any Competitor and neither the summary nor the aggregate
\* score of the Analysis, and scrapeCompetitor has not changed the Analysis.
C30_PhasesWriteDisjointFields ==
    \A p \in Procs :
        /\ req[p].kind = "runAnalysis" =>
              \A c \in CompIds : \A k \in ScrapeColumns : comp[c][k] = req[p].pre.rows[c][k]
        /\ req[p].kind \in {"scrapeCompetitor", "scrapeAllPending"} =>
              /\ \A c \in CompIds : \A k \in ScoreColumns : comp[c][k] = req[p].pre.rows[c][k]
              /\ analysis.summary = req[p].preAnalysis.summary
              /\ analysis.overallScore = req[p].preAnalysis.overallScore
        /\ req[p].kind = "scrapeCompetitor" => analysis = req[p].preAnalysis

\* a batch has scraped a competitor that an earlier run had scored
C30_Witness ==
    \E p \in Procs : /\ req[p].kind = "scrapeAllPending" /\ req[p].pc = "done"
                     /\ analysis.status = "SCRAPING" /\ analysis.summary # JsNull
                     /\ analysis.overallScore # JsNull
                     /\ \E c \in CompIds : /\ comp[c].scrapeStatus = "COMPLETED"
                                           /\ req[p].pre.rows[c].scrapeStatus = "PENDING"
                                           /\ comp[c].overallScore # JsNull
                                           /\ comp[c].strengths # <<>>

====
